---- MODULE Spec2Model ----
(***************************************************************************)
(* A model of the calculator of src/main.cpp: the tokenizer                *)
(* (Token_stream), the symbol table (Symbol_table), the recursive-descent  *)
(* evaluator (primary, secondary, term, expression), the statement         *)
(* dispatcher (statement, declaration, assignment) and the read loop       *)
(* (calculate) with its error recovery (clean_up, Token_stream::ignore).   *)
(*                                                                         *)
(* Standard input is a finite sequence of characters, each a one-character *)
(* string.  One step of the model is one iteration of the loop of          *)
(* calculate().                                                            *)
(*                                                                         *)
(* double values are modelled exactly as normalised rationals n/d while    *)
(* numerator and denominator are small enough for the products of the      *)
(* arithmetic to fit 32 bits.  The two predefined constants pi and e,      *)
(* whose ten decimals do not fit, are opaque values carrying their literal *)
(* text and their integral part.  Arithmetic on an opaque value or on a    *)
(* value too large yields an opaque term: the text of the operation, which *)
(* is neither zero nor negative.  The inputs explored read, print, declare *)
(* from and assign such values, and never test their sign.                 *)
(***************************************************************************)
EXTENDS Integers, Sequences, FiniteSets, TLC

VARIABLES
    input,      \* the characters of standard input (cin), fixed for a run
    cin,        \* [pos, fail]: index of the next unread character, failbit
    buffer,     \* Token_stream::buffer, back of the vector = last element
    var_table,  \* Symbol_table::var_table of the global `symbols`
    out,        \* what calculate() has written, one record per iteration
    pc,         \* "run": in the loop; "done": calculate returned;
                \* "hang": Token_stream::get spins at end of input
    tree,       \* the expression tree the input was printed from (SpecExpr)
    build,      \* what the build made of the overflow test of factorial()
    peak        \* the most tokens buffer held during the last iteration

vars == <<input, cin, buffer, var_table, out, pc, tree, build, peak>>

----------------------------------------------------------------------------
(* Bounds of the explored inputs *)

MaxPieces == 2      \* input lines drawn from the menu per session
MaxOps == 2         \* operator nodes of an expression tree
MaxTail == 2        \* characters of a name after its first letter
MaxLit == 2         \* largest integer literal of an expression tree

(* int of the platform: 32 bits, two's complement *)
IntMax == 2147483647
IntMin == -IntMax - 1

----------------------------------------------------------------------------
(* double values *)

Abs(n) == IF n < 0 THEN -n ELSE n

RECURSIVE GCD(_, _)
GCD(a, b) == IF b = 0 THEN a ELSE GCD(b, a % b)

Norm(n, d) ==
    LET s == IF d < 0 THEN -1 ELSE 1
        g == GCD(Abs(n), Abs(d))
    IN  [n |-> (s * n) \div g, d |-> (s * d) \div g, lit |-> ""]

Num(k) == [n |-> k, d |-> 1, lit |-> ""]
Zero == Num(0)
Opaque(text, ipart) == [n |-> ipart, d |-> 1, lit |-> text]
IsOpaque(a) == a.lit # ""

Show(a) ==
    IF IsOpaque(a) THEN a.lit
    ELSE IF a.d = 1 THEN ToString(a.n)
    ELSE ToString(a.n) \o "/" \o ToString(a.d)

OpaqueTerm(a, op, b) == Opaque("(" \o Show(a) \o op \o Show(b) \o ")", 0)

\* arithmetic on a and b is exact: both are rationals whose products and
\* sums of products fit 32 bits
Exact == IntMax \div 65536
Large(a) == a.n > Exact \/ a.n < -Exact \/ a.d > Exact
Symbolic(a) == IsOpaque(a) \/ Large(a)

IsZero(a) == ~IsOpaque(a) /\ a.n = 0          \* d == 0
IsNegative(a) == ~IsOpaque(a) /\ a.n < 0      \* d < 0

\* static_cast<int>(double): truncation toward zero
Trunc(a) ==
    IF IsOpaque(a) THEN a.n
    ELSE IF a.d = 1 THEN a.n
    ELSE IF a.n >= 0 THEN a.n \div a.d ELSE -((-a.n) \div a.d)

Neg(a) == IF IsOpaque(a) THEN Opaque("(-" \o a.lit \o ")", -a.n)
          ELSE IF a.n = IntMin THEN Opaque("2147483648", IntMax)
          ELSE [a EXCEPT !.n = -a.n]
Add(a, b) == IF Symbolic(a) \/ Symbolic(b) THEN OpaqueTerm(a, "+", b)
             ELSE Norm(a.n * b.d + b.n * a.d, a.d * b.d)
Sub(a, b) == IF Symbolic(a) \/ Symbolic(b) THEN OpaqueTerm(a, "-", b)
             ELSE Norm(a.n * b.d - b.n * a.d, a.d * b.d)
Mul(a, b) == IF Symbolic(a) \/ Symbolic(b) THEN OpaqueTerm(a, "*", b)
             ELSE Norm(a.n * b.n, a.d * b.d)
\* b is not zero
Div(a, b) == IF Symbolic(a) \/ Symbolic(b) THEN OpaqueTerm(a, "/", b)
             ELSE Norm(a.n * b.d, a.d * b.n)
\* fmod(a, b) for b not zero: a - b * trunc(a / b)
Fmod(a, b) == IF Symbolic(a) \/ Symbolic(b) THEN OpaqueTerm(a, "%", b)
              ELSE Sub(a, Mul(b, Num(Trunc(Div(a, b)))))

\* the integer square root of a perfect square, -1 otherwise
RECURSIVE RootFrom(_, _)
RootFrom(n, r) == IF r * r = n THEN r
                  ELSE IF r * r > n THEN -1
                  ELSE RootFrom(n, r + 1)

\* sqrt(a) for a not negative
Sqrt(a) ==
    IF Symbolic(a) THEN Opaque("sqrt(" \o Show(a) \o ")", 0)
    ELSE LET rn == RootFrom(a.n, 0)
             rd == RootFrom(a.d, 1)
         IN  IF rn >= 0 /\ rd >= 0 THEN Norm(rn, rd)
             ELSE Opaque("sqrt(" \o Show(a) \o ")", 0)

RECURSIVE IntPow(_, _)
IntPow(a, k) == IF k = 0 THEN Num(1) ELSE Mul(a, IntPow(a, k - 1))

\* pow(a, b): exact for an integral exponent
Pow(a, b) ==
    IF Symbolic(a) \/ Symbolic(b) \/ b.d # 1 \/ (b.n < 0 /\ IsZero(a))
    THEN Opaque("pow(" \o Show(a) \o "," \o Show(b) \o ")", 0)
    ELSE IF b.n >= 0 THEN IntPow(a, b.n)
    ELSE Div(Num(1), IntPow(a, -b.n))

----------------------------------------------------------------------------
(* int arithmetic, wrapping modulo 2^32 *)

AddWrap(a, b) ==
    IF a >= 0 /\ b >= 0 /\ a > IntMax - b
        THEN (a - IntMax - 1) + (b - IntMax - 1)
    ELSE IF a < 0 /\ b < 0 /\ a < IntMin - b
        THEN (a + IntMax + 1) + (b + IntMax + 1)
    ELSE a + b

\* a * b for b >= 0
RECURSIVE MulWrap(_, _)
MulWrap(a, b) ==
    IF b = 0 THEN 0
    ELSE LET h == MulWrap(a, b \div 2)
             dbl == AddWrap(h, h)
         IN  IF b % 2 = 1 THEN AddWrap(dbl, a) ELSE dbl

\* int division x / y, truncating toward zero (y # 0)
TruncDivPos(a, b) ==
    IF a >= 0 \/ a % b = 0 THEN a \div b ELSE (a \div b) + 1
TruncDiv(a, b) == IF b > 0 THEN TruncDivPos(a, b) ELSE -TruncDivPos(a, -b)

----------------------------------------------------------------------------
(* Tokens *)

t_number == "8"
t_print == ";"
t_name == "a"
t_quit == "q"
t_sqrt == "S"
t_pow == "P"
t_decl == "#"
t_assign == "="
t_const == "C"
t_help == "h"
t_symbols == "$"

quitkey == "quit"
declkey == "let"
constkey == "const"
helpkey == "help"
symbkey == "symbols"
sqrtkey == "sqrt"
powkey == "pow"

Token(ch) == [kind |-> ch, value |-> Zero, name |-> ""]
NumberToken(val) == [kind |-> t_number, value |-> val, name |-> ""]
NameToken(s) == [kind |-> t_name, value |-> Zero, name |-> s]

----------------------------------------------------------------------------
(* Character classes of <cctype> in the "C" locale *)

Digit == {"0", "1", "2", "3", "4", "5", "6", "7", "8", "9"}
Lower == {"a", "b", "c", "d", "e", "f", "g", "h", "i", "j", "k", "l", "m",
          "n", "o", "p", "q", "r", "s", "t", "u", "v", "w", "x", "y", "z"}
Upper == {"A", "B", "C", "D", "E", "F", "G", "H", "I", "J", "K", "L", "M",
          "N", "O", "P", "Q", "R", "S", "T", "U", "V", "W", "X", "Y", "Z"}
Alpha == Lower \cup Upper
Space == {" ", "\t", "\n", "\r", "\f"}
isalpha(ch) == ch \in Alpha
isdigit(ch) == ch \in Digit

DigitValue(ch) ==
    CASE ch = "0" -> 0 [] ch = "1" -> 1 [] ch = "2" -> 2 [] ch = "3" -> 3
      [] ch = "4" -> 4 [] ch = "5" -> 5 [] ch = "6" -> 6 [] ch = "7" -> 7
      [] ch = "8" -> 8 [] ch = "9" -> 9

\* the first index at or after p whose character is not in keep; Len + 1 if
\* there is none
RECURSIVE RunEnd(_, _, _)
RunEnd(s, p, keep) ==
    IF p > Len(s) THEN p
    ELSE IF s[p] \in keep THEN RunEnd(s, p + 1, keep)
    ELSE p

\* the first index at or after p whose character is c; Len + 1 if none
RECURSIVE FindChar(_, _, _)
FindChar(s, p, c) ==
    IF p > Len(s) THEN p
    ELSE IF s[p] = c THEN p
    ELSE FindChar(s, p + 1, c)

\* the characters s[from .. to - 1] as one string
RECURSIVE Text(_, _, _)
Text(s, from, to) ==
    IF from >= to THEN "" ELSE s[from] \o Text(s, from + 1, to)

\* the digits s[from .. to - 1] read as a decimal number, after acc
RECURSIVE Decimal(_, _, _, _)
Decimal(s, from, to, acc) ==
    IF from >= to THEN acc
    ELSE Decimal(s, from + 1, to, 10 * acc + DigitValue(s[from]))

RECURSIVE Pow10(_)
Pow10(k) == IF k = 0 THEN 1 ELSE 10 * Pow10(k - 1)

----------------------------------------------------------------------------
(* Token_stream: a stream is [buffer, pos, fail] over the characters s.     *)
(* A call whose result is used more than once is passed on as a parameter   *)
(* of the operator that continues the function, and the cases of a loop     *)
(* that call the same function share the one place that calls it.           *)

Max(a, b) == IF a >= b THEN a ELSE b

\* peak is the largest size the buffer has had since the stream record was
\* made
Stream(b, c) ==
    [buffer |-> b, pos |-> c.pos, fail |-> c.fail, peak |-> Len(b)]

GetOk(ts, t) == [ts |-> ts, tok |-> t, err |-> ""]
GetThrow(ts, msg) == [ts |-> ts, tok |-> Token(""), err |-> msg]
\* not an exception: get() never returns
Hang == "<get() spins at end of input>"

\* a putback that pushes the token twice
putback_Twice(ts, t) ==
    [ts EXCEPT !.buffer = Append(Append(@, t), t),
               !.peak = Max(@, Len(ts.buffer) + 2)]

putback(ts, t) ==
    [ts EXCEPT !.buffer = Append(@, t), !.peak = Max(@, Len(ts.buffer) + 1)]

\* `cin >> val` on a literal starting at p whose integral digits end before i
\* and whose fraction, if any, ends before j.  A literal with no digit at all
\* sets failbit and stores 0.
NumberRead(s, ts, p, i, j) ==
    IF (i - p) + (IF j > i THEN j - (i + 1) ELSE 0) = 0
    THEN GetOk([ts EXCEPT !.pos = j, !.fail = TRUE], NumberToken(Zero))
    ELSE IF j > i
    THEN GetOk([ts EXCEPT !.pos = j],
               NumberToken(Norm(Decimal(s, i + 1, j, Decimal(s, p, i, 0)),
                                Pow10(j - (i + 1)))))
    ELSE GetOk([ts EXCEPT !.pos = j], NumberToken(Num(Decimal(s, p, i, 0))))

NumberFraction(s, ts, p, i) ==
    IF i <= Len(s) /\ s[i] = "."
    THEN NumberRead(s, ts, p, i, RunEnd(s, i + 1, Digit))
    ELSE NumberRead(s, ts, p, i, i)

ReadNumber(s, ts, p) == NumberFraction(s, ts, p, RunEnd(s, p, Digit))

\* the keyword table of get()
KeywordToken(str) ==
    IF str = constkey THEN Token(t_const)
    ELSE IF str = declkey THEN Token(t_decl)
    ELSE IF str = sqrtkey THEN Token(t_sqrt)
    ELSE IF str = powkey THEN Token(t_pow)
    ELSE IF str = helpkey THEN Token(t_help)
    ELSE IF str = symbkey THEN Token(t_symbols)
    ELSE IF str = quitkey THEN Token(t_quit)
    ELSE NameToken(str)

\* the loop accumulating a name from its first letter at p, ended before q;
\* the character that ends it is put back, and end of input while reading
\* sets failbit
NameRead(s, ts, p, q) ==
    GetOk([ts EXCEPT !.pos = q, !.fail = q > Len(s)],
          KeywordToken(Text(s, p, q)))

ReadName(s, ts, p) ==
    NameRead(s, ts, p, RunEnd(s, p + 1, Alpha \cup Digit \cup {"_"}))

\* the switch of get() on the character at p, the first that is not a blank
GetAt(s, ts, p) ==
    IF ts.fail \/ p > Len(s) THEN GetThrow(ts, Hang)
    ELSE IF s[p] \in {t_print, "\n"}
        THEN GetOk([ts EXCEPT !.pos = p + 1], Token(t_print))
    ELSE IF s[p] \in {t_decl, t_quit, t_assign, "(", ")", "{", "}",
                      ",", "+", "-", "*", "/", "!"}
        THEN GetOk([ts EXCEPT !.pos = p + 1], Token(s[p]))
    ELSE IF s[p] = "." \/ isdigit(s[p]) THEN ReadNumber(s, ts, p)
    ELSE IF isalpha(s[p]) THEN ReadName(s, ts, p)
    ELSE GetThrow([ts EXCEPT !.pos = p + 1], "bad token")

get(s, ts) ==
    IF ts.buffer # <<>>
    THEN GetOk([ts EXCEPT !.buffer = SubSeq(@, 1, Len(@) - 1)],
               ts.buffer[Len(ts.buffer)])
    ELSE GetAt(s, ts, RunEnd(s, ts.pos, Space \ {"\n"}))

\* discard up to and including a token of kind c (buffer) or character c (cin)
RECURSIVE DropBuffered(_, _)
DropBuffered(b, c) ==
    IF b # <<>> /\ b[Len(b)].kind # c
    THEN DropBuffered(SubSeq(b, 1, Len(b) - 1), c)
    ELSE b

\* ignore() with the buffer cut to b and the next c of cin at p
IgnoreFrom(s, ts, b, p) ==
    IF b # <<>> THEN [ts EXCEPT !.buffer = b]
    ELSE IF ts.fail THEN [ts EXCEPT !.buffer = b]
    ELSE IF p > Len(s)
        THEN [ts EXCEPT !.buffer = b, !.pos = Len(s) + 1, !.fail = TRUE]
    ELSE [ts EXCEPT !.buffer = b, !.pos = p + 1, !.fail = FALSE]

ignore(s, ts, c) ==
    IgnoreFrom(s, ts, DropBuffered(ts.buffer, c), FindChar(s, ts.pos, c))

----------------------------------------------------------------------------
(* Symbol_table: a table is a sequence of [name, value, constant] *)

Variable(name, value, constant) ==
    [name |-> name, value |-> value, constant |-> constant]

\* an is_declared that looks at the newest entry only
is_declared_LastOnly(table, var) ==
    table # <<>> /\ table[Len(table)].name = var

is_declared(table, var) == \E i \in 1..Len(table) : table[i].name = var

\* the first entry named s (the range-for returns at the first match)
FirstIndex(table, s) ==
    CHOOSE i \in 1..Len(table) :
        /\ table[i].name = s
        /\ \A j \in 1..(i - 1) : table[j].name # s

get_value(table, s) ==
    IF is_declared(table, s)
    THEN [val |-> table[FirstIndex(table, s)].value, err |-> ""]
    ELSE [val |-> Zero, err |-> "trying to read undefined variable " \o s]

\* a set_value without the test of the constant flag
set_value_NoConstCheck(table, s, d) ==
    IF ~is_declared(table, s)
    THEN [table |-> table, err |-> "trying to write undefined variable " \o s]
    ELSE [table |-> [table EXCEPT ![FirstIndex(table, s)].value = d],
          err |-> ""]

\* a set_value that writes the value before it tests the constant flag
set_value_WriteFirst(table, s, d) ==
    IF ~is_declared(table, s)
    THEN [table |-> table, err |-> "trying to write undefined variable " \o s]
    ELSE [table |-> [table EXCEPT ![FirstIndex(table, s)].value = d],
          err |-> IF table[FirstIndex(table, s)].constant
                      THEN "trying to write to constant" ELSE ""]

\* a set_value that finds the entry and leaves its value
set_value_Keep(table, s, d) ==
    IF ~is_declared(table, s)
    THEN [table |-> table, err |-> "trying to write undefined variable " \o s]
    ELSE IF table[FirstIndex(table, s)].constant
    THEN [table |-> table, err |-> "trying to write to constant"]
    ELSE [table |-> table, err |-> ""]

set_value(table, s, d) ==
    IF ~is_declared(table, s)
    THEN [table |-> table, err |-> "trying to write undefined variable " \o s]
    ELSE IF table[FirstIndex(table, s)].constant
    THEN [table |-> table, err |-> "trying to write to constant"]
    ELSE [table |-> [table EXCEPT ![FirstIndex(table, s)].value = d],
          err |-> ""]

\* a define_name that lets a second declaration replace the first
define_name_Replace(table, var, val, constant) ==
    IF is_declared(table, var)
    THEN [table |-> [table EXCEPT ![FirstIndex(table, var)] =
                         Variable(var, val, constant)],
          err |-> ""]
    ELSE [table |-> Append(table, Variable(var, val, constant)), err |-> ""]

define_name(table, var, val, constant) ==
    IF is_declared(table, var)
    THEN [table |-> table, err |-> var \o " declared twice"]
    ELSE [table |-> Append(table, Variable(var, val, constant)), err |-> ""]

----------------------------------------------------------------------------
(* factorial(int x) *)

RECURSIVE FactorialLoop(_, _)

\* `x *= i` on an int is undefined when the product does not fit.  What the
\* program then does depends on how it was built: the product wraps and the
\* test that follows is run, or the compiler took the product to fit, which
\* makes the test always false, and removed it.
Builds == {"test kept", "test removed"}

\* the body of the loop after `x *= i` left nx in x
FactorialStep(prev, i, nx) ==
    IF prev # 0 /\ build = "test kept" /\ TruncDiv(nx, prev) # i
    THEN [val |-> Zero, err |-> "overflow occurred in int."]
    ELSE FactorialLoop(nx, i - 1)

\* the loop `for (int i = x-1; i > 0; --i)`; once x is 0 every later
\* product is 0 and the test is skipped (prev is 0), so the loop ends
\* with 0
FactorialLoop(x, i) ==
    IF i > 0 /\ x # 0 THEN FactorialStep(x, i, MulWrap(x, i))
    ELSE [val |-> Num(x), err |-> ""]

\* a factorial without the test of the sign
factorial_NoSignTest(x) ==
    IF x = 0 THEN FactorialLoop(1, 0)
    ELSE FactorialLoop(x, x - 1)

factorial(x) ==
    IF x < 0
    THEN [val |-> Zero, err |-> "cannot get factorial of negative number."]
    ELSE IF x = 0 THEN FactorialLoop(1, 0)
    ELSE FactorialLoop(x, x - 1)

----------------------------------------------------------------------------
(* The evaluator.  Every function takes the characters s, the symbol table  *)
(* tb and a stream ts, and returns [ts, val, err]: the stream it leaves,    *)
(* the value, and the message of the runtime_error it threw ("" if none).   *)

Return(ts, v) == [ts |-> ts, val |-> v, err |-> ""]
Throw(ts, msg) == [ts |-> ts, val |-> Zero, err |-> msg]

RECURSIVE expression(_, _, _)
RECURSIVE primary(_, _, _)
RECURSIVE SecondaryLoop(_, _, _)
RECURSIVE TermLoop(_, _, _, _)
RECURSIVE ExpressionLoop(_, _, _, _)

\* `if (t.kind != close) throw ...; return d;` on the token g just read
Expect(g, d, close, msg) ==
    IF g.err # "" THEN Throw(g.ts, g.err)
    ELSE IF g.tok.kind # close THEN Throw(g.ts, msg)
    ELSE Return(g.ts, d)

\* `const double d = expression(ts); t = ts.get(); if (t.kind != close) ...`
Closing(s, r, close, msg) ==
    IF r.err # "" THEN r ELSE Expect(get(s, r.ts), r.val, close, msg)

\* a sqrt without the test of the sign
SqrtOf_NoSignTest(r) ==
    IF r.err # "" THEN r ELSE Return(r.ts, Sqrt(r.val))

SqrtOf(r) ==
    IF r.err # "" THEN r
    ELSE IF IsNegative(r.val)
        THEN Throw(r.ts, "cannot get square root of negative number")
    ELSE Return(r.ts, Sqrt(r.val))

SqrtCall(s, tb, g) ==
    IF g.err # "" THEN Throw(g.ts, g.err)
    ELSE IF g.tok.kind # "(" THEN Throw(g.ts, "sqrt: primary expected")
    ELSE SqrtOf(Closing(s, expression(s, tb, g.ts), ")", "sqrt: ')' expected"))

PowOf(exp1, r) ==
    IF r.err # "" THEN r ELSE Return(r.ts, Pow(exp1, r.val))

PowSecond(s, tb, r) ==
    IF r.err # "" THEN r
    ELSE PowOf(r.val,
               Closing(s, expression(s, tb, r.ts), ")", "pow: ')' expected"))

PowCall(s, tb, g) ==
    IF g.err # "" THEN Throw(g.ts, g.err)
    ELSE IF g.tok.kind # "(" THEN Throw(g.ts, "pow: primary expected")
    ELSE PowSecond(s, tb,
                   Closing(s, expression(s, tb, g.ts), ",", "pow: ',' expected"))

eval_function(s, tb, ts, t) ==
    IF t.kind = t_sqrt THEN SqrtCall(s, tb, get(s, ts))
    ELSE IF t.kind = t_pow THEN PowCall(s, tb, get(s, ts))
    ELSE Throw(ts, "function not implemented")

\* `return - primary(ts);`
Negated(r) == IF r.err # "" THEN r ELSE Return(r.ts, Neg(r.val))

\* `return symbols.get_value(t.name);`
Lookup(ts, v) == IF v.err # "" THEN Throw(ts, v.err) ELSE Return(ts, v.val)

\* the switch of primary() on the token g just read
PrimaryOn(s, tb, g) ==
    IF g.err # "" THEN Throw(g.ts, g.err)
    ELSE IF g.tok.kind = "("
        THEN Closing(s, expression(s, tb, g.ts), ")", "')' expected")
    ELSE IF g.tok.kind = "{"
        THEN Closing(s, expression(s, tb, g.ts), "}", "'}' expected")
    ELSE IF g.tok.kind \in {t_sqrt, t_pow}
        THEN eval_function(s, tb, g.ts, g.tok)
    ELSE IF g.tok.kind = t_number THEN Return(g.ts, g.tok.value)
    ELSE IF g.tok.kind = "-" THEN Negated(primary(s, tb, g.ts))
    ELSE IF g.tok.kind = "+" THEN primary(s, tb, g.ts)
    ELSE IF g.tok.kind = t_name
        THEN Lookup(g.ts, get_value(tb, g.tok.name))
    ELSE Throw(g.ts, "primary expected")

primary(s, tb, ts) == PrimaryOn(s, tb, get(s, ts))

\* `left = factorial(static_cast<int>(left)); t = ts.get();`
Factorial(s, ts, f) ==
    IF f.err # "" THEN Throw(ts, f.err)
    ELSE SecondaryLoop(s, f.val, get(s, ts))

\* the loop of secondary(), with the running value and the token g just read
SecondaryLoop(s, left, g) ==
    IF g.err # "" THEN Throw(g.ts, g.err)
    ELSE IF g.tok.kind = "!" THEN Factorial(s, g.ts, factorial(Trunc(left)))
    ELSE Return(putback(g.ts, g.tok), left)

SecondaryFrom(s, r) ==
    IF r.err # "" THEN r ELSE SecondaryLoop(s, r.val, get(s, r.ts))

secondary(s, tb, ts) == SecondaryFrom(s, primary(s, tb, ts))

\* one case of the loop of term(), `left *= secondary(ts)`, `left /= d` or
\* `left = fmod(left, d)` after the zero test, then `t = ts.get()`; the
\* operator "" stands for the first operand, `double left = secondary(ts)`
\* a term() whose case '/' does not test the divisor
TermApply_NoZeroTest(s, tb, left, op, r) ==
    IF r.err # "" THEN r
    ELSE IF op = "" THEN TermLoop(s, tb, r.val, get(s, r.ts))
    ELSE IF op = "*" THEN TermLoop(s, tb, Mul(left, r.val), get(s, r.ts))
    ELSE IF op = "/"
        THEN IF IsZero(r.val)
                 THEN TermLoop(s, tb, Opaque("inf", 0), get(s, r.ts))
             ELSE TermLoop(s, tb, Div(left, r.val), get(s, r.ts))
    ELSE IF IsZero(r.val) THEN Throw(r.ts, "%: divide by zero")
    ELSE TermLoop(s, tb, Fmod(left, r.val), get(s, r.ts))

TermApply(s, tb, left, op, r) ==
    IF r.err # "" THEN r
    ELSE IF op = "" THEN TermLoop(s, tb, r.val, get(s, r.ts))
    ELSE IF op = "*" THEN TermLoop(s, tb, Mul(left, r.val), get(s, r.ts))
    ELSE IF op = "/"
        THEN IF IsZero(r.val) THEN Throw(r.ts, "divide by zero")
             ELSE TermLoop(s, tb, Div(left, r.val), get(s, r.ts))
    ELSE IF IsZero(r.val) THEN Throw(r.ts, "%: divide by zero")
    ELSE TermLoop(s, tb, Fmod(left, r.val), get(s, r.ts))

\* the operand of a case of term(): the one place secondary() is called from
TermOperand(s, tb, left, op, ts) ==
    TermApply(s, tb, left, op, secondary(s, tb, ts))

\* the switch of term() on the token g just read
TermLoop(s, tb, left, g) ==
    IF g.err # "" THEN Throw(g.ts, g.err)
    ELSE IF g.tok.kind \in {"*", "/", "%"}
        THEN TermOperand(s, tb, left, g.tok.kind, g.ts)
    ELSE Return(putback(g.ts, g.tok), left)

term(s, tb, ts) == TermOperand(s, tb, Zero, "", ts)

\* one case of the loop of expression(), `left += term(ts)` or
\* `left -= term(ts)`, then `t = ts.get()`; the operator "" stands for the
\* first operand, `double left = term(ts)`
ExpressionApply(s, tb, left, op, r) ==
    IF r.err # "" THEN r
    ELSE IF op = "" THEN ExpressionLoop(s, tb, r.val, get(s, r.ts))
    ELSE IF op = "+" THEN ExpressionLoop(s, tb, Add(left, r.val), get(s, r.ts))
    ELSE ExpressionLoop(s, tb, Sub(left, r.val), get(s, r.ts))

\* the operand of a case of expression(): the one place term() is called from
\* an expression() whose operands are Secondaries, not Terms
ExpressionOperand_Secondary(s, tb, left, op, ts) ==
    ExpressionApply(s, tb, left, op, secondary(s, tb, ts))

ExpressionOperand(s, tb, left, op, ts) ==
    ExpressionApply(s, tb, left, op, term(s, tb, ts))

\* the switch of expression() on the token g just read
ExpressionLoop(s, tb, left, g) ==
    IF g.err # "" THEN Throw(g.ts, g.err)
    ELSE IF g.tok.kind \in {"+", "-"}
        THEN ExpressionOperand(s, tb, left, g.tok.kind, g.ts)
    ELSE Return(putback(g.ts, g.tok), left)

expression(s, tb, ts) == ExpressionOperand(s, tb, Zero, "", ts)

----------------------------------------------------------------------------
(* Statements return [ts, val, err, table]: table is `symbols` afterwards.  *)

StmtReturn(ts, v, tb) == [ts |-> ts, val |-> v, err |-> "", table |-> tb]
StmtThrow(ts, msg, tb) == [ts |-> ts, val |-> Zero, err |-> msg, table |-> tb]

\* `symbols.define_name(t.name, d, constant); return d;`
Defined(r, def) ==
    IF def.err # "" THEN StmtThrow(r.ts, def.err, def.table)
    ELSE StmtReturn(r.ts, r.val, def.table)

\* `const double d = expression(ts);` of declaration()
DeclarationValue(tb, name, constant, r) ==
    IF r.err # "" THEN StmtThrow(r.ts, r.err, tb)
    ELSE Defined(r, define_name(tb, name, r.val, constant))

\* `if (const Token t2 = ts.get(); t2.kind != '=') throw ...`
DeclarationEquals(s, tb, name, constant, g2) ==
    IF g2.err # "" THEN StmtThrow(g2.ts, g2.err, tb)
    ELSE IF g2.tok.kind # "="
        THEN StmtThrow(g2.ts, "'=' missing in declaration of " \o name, tb)
    ELSE DeclarationValue(tb, name, constant, expression(s, tb, g2.ts))

\* `const Token t = ts.get(); if (t.kind != t_name) throw ...`
DeclarationName(s, tb, constant, g) ==
    IF g.err # "" THEN StmtThrow(g.ts, g.err, tb)
    ELSE IF g.tok.kind # t_name
        THEN StmtThrow(g.ts, "name expected in declaration", tb)
    ELSE DeclarationEquals(s, tb, g.tok.name, constant, get(s, g.ts))

declaration(s, tb, ts, constant) ==
    DeclarationName(s, tb, constant, get(s, ts))

\* `symbols.set_value(var_name, d); return d;`
Assigned(r, set) ==
    IF set.err # "" THEN StmtThrow(r.ts, set.err, set.table)
    ELSE StmtReturn(r.ts, r.val, set.table)

\* `const double d = expression(ts);` of assignment()
AssignmentValue(tb, var_name, r) ==
    IF r.err # "" THEN StmtThrow(r.ts, r.err, tb)
    ELSE Assigned(r, set_value(tb, var_name, r.val))

\* `ts.get();  // skip the '='`
AssignmentEquals(s, tb, var_name, g2) ==
    IF g2.err # "" THEN StmtThrow(g2.ts, g2.err, tb)
    ELSE AssignmentValue(tb, var_name, expression(s, tb, g2.ts))

\* `const Token t = ts.get(); ... if (!symbols.is_declared(var_name)) throw`
\* an assignment() without the test of is_declared
AssignmentName_NoDeclaredTest(s, tb, g) ==
    IF g.err # "" THEN StmtThrow(g.ts, g.err, tb)
    ELSE AssignmentEquals(s, tb, g.tok.name, get(s, g.ts))

AssignmentName(s, tb, g) ==
    IF g.err # "" THEN StmtThrow(g.ts, g.err, tb)
    ELSE IF ~is_declared(tb, g.tok.name)
        THEN StmtThrow(g.ts, g.tok.name \o " has not been declared", tb)
    ELSE AssignmentEquals(s, tb, g.tok.name, get(s, g.ts))

assignment(s, tb, ts) == AssignmentName(s, tb, get(s, ts))

\* `return expression(ts);` of statement()
\* a bare expression that consumes the token it stopped at
Bare_Consume(tb, r) ==
    [ts |-> [r.ts EXCEPT !.buffer = <<>>], val |-> r.val, err |-> r.err,
     table |-> tb]

Bare(tb, r) == [ts |-> r.ts, val |-> r.val, err |-> r.err, table |-> tb]

\* case t_name of statement(): t2 is read, both tokens are put back, and the
\* statement is an assignment when t2 is '='
\* a statement() that puts the Name back before the token after it
NameFirst_NameBackFirst(s, tb, t, g2) ==
    IF g2.err # "" THEN StmtThrow(g2.ts, g2.err, tb)
    ELSE IF g2.tok.kind = t_assign
        THEN assignment(s, tb, putback(putback(g2.ts, t), g2.tok))
    ELSE Bare(tb, expression(s, tb, putback(putback(g2.ts, t), g2.tok)))

NameFirst(s, tb, t, g2) ==
    IF g2.err # "" THEN StmtThrow(g2.ts, g2.err, tb)
    ELSE IF g2.tok.kind = t_assign
        THEN assignment(s, tb, putback(putback(g2.ts, g2.tok), t))
    ELSE Bare(tb, expression(s, tb, putback(putback(g2.ts, g2.tok), t)))

\* the switch of statement() on the token g just read
StatementOn(s, tb, g) ==
    IF g.err # "" THEN StmtThrow(g.ts, g.err, tb)
    ELSE IF g.tok.kind \in {t_const, t_decl}
        THEN declaration(s, tb, g.ts, g.tok.kind = t_const)
    ELSE IF g.tok.kind = t_name THEN NameFirst(s, tb, g.tok, get(s, g.ts))
    ELSE Bare(tb, expression(s, tb, putback(g.ts, g.tok)))

statement(s, tb, ts) == StatementOn(s, tb, get(s, ts))

clean_up(s, ts) == ignore(s, ts, t_print)

----------------------------------------------------------------------------
(* The lines a session's input is made of, each with its terminator *)

\* statements that parse and evaluate from the startup table
Valid == {
    <<"7", "\n">>,    \* 7\n
    <<"k", ";">>,    \* k;
    <<"2", "+", "3", "*", "4", "\n">>,    \* 2+3*4\n
    <<"7", ";">>,    \* 7;
    <<"8", "/", "4", "/", "2", ";">>    \* 8/4/2;
}

\* declarations
Decls == {
    <<"l", "e", "t", " ", "x", " ", "=", " ", "5", ";">>,    \* let x = 5;
    <<"l", "e", "t", " ", "x", " ", "=", " ", "2", "\n">>,    \* let x = 2\n
    <<"c", "o", "n", "s", "t", " ", "c", " ", "=", " ", "3", ";">>,    \* const c = 3;
    <<"#", " ", "k", " ", "=", " ", "1", ";">>,    \* # k = 1;
    <<"c", "o", "n", "s", "t", " ", "e", " ", "=", " ", "1", "\n">>,    \* const e = 1\n
    <<"l", "e", "t", " ", "y", " ", "=", " ", "1", "/", "0", ";">>,    \* let y = 1/0;
    <<"l", "e", "t", " ", ";">>,    \* let ;
    <<"l", "e", "t", " ", "x", " ", "5", ";">>    \* let x 5;
}

\* assignments
Assigns == {
    <<"k", " ", "=", " ", "7", ";">>,    \* k = 7;
    <<"p", "i", " ", "=", " ", "4", "\n">>,    \* pi = 4\n
    <<"c", " ", "=", " ", "4", ";">>,    \* c = 4;
    <<"x", " ", "=", " ", "x", " ", "+", " ", "1", ";", " ", "x", "\n">>,    \* x = x + 1; x\n
    <<"k", " ", "=", " ", "z", ";">>    \* k = z;
}

\* lines holding a character get() does not know
Lexical == {
    <<"@", "\n">>,    \* @\n
    <<"2", " ", "@", " ", "3", "\n">>,    \* 2 @ 3\n
    <<"2", " ", "@", ";">>    \* 2 @;
}

\* uses of %
Percent == {
    <<"1", "0", " ", "%", " ", "0", ";">>,    \* 10 % 0;
    <<"7", " ", "%", " ", "2", ";">>    \* 7 % 2;
}

\* expressions that throw
Failing == {
    <<"(", "1", ";">>,    \* (1;
    <<"{", "1", ")", ";">>,    \* {1);
    <<"1", "/", "0", ";">>,    \* 1/0;
    <<"k", "/", "0", "\n">>,    \* k/0\n
    <<"-", "3", "!", "\n">>,    \* -3!\n
    <<"z", ";">>,    \* z;
    <<"1", " ", "+", ";">>,    \* 1 +;
    <<"2", "0", "!", ";">>,    \* 20!;
    <<"s", "q", "r", "t", "(", "0", "-", "1", ")", ";">>,    \* sqrt(0-1);
    <<"s", "q", "r", "t", " ", "2", ";">>,    \* sqrt 2;
    <<"p", "o", "w", "(", "2", ";">>    \* pow(2;
}

\* commands of calculate()
Commands == {
    <<"q", "\n">>,    \* q\n
    <<"h", "e", "l", "p", "\n">>,    \* help\n
    <<"s", "y", "m", "b", "o", "l", "s", "\n">>    \* symbols\n
}

\* statements that follow one another without a terminator, or read a
\* variable that the statement before them wrote
Sequences == {
    <<"l", "e", "t", " ", "x", " ", "=", " ", "5", ";", " ", "x", "\n">>,    \* let x = 5; x\n
    <<"1", " ", "2", "\n">>,    \* 1 2\n
    <<"k", " ", "=", " ", "5", " ", ")", "\n">>    \* k = 5 )\n
}

Menu == Valid \cup Decls \cup Assigns \cup Lexical \cup Percent \cup Failing
            \cup Commands \cup Sequences

\* the inputs made of 1 .. n lines of the menu
RECURSIVE Lines(_)
Lines(n) ==
    IF n = 0 THEN {<<>>}
    ELSE LET shorter == Lines(n - 1)
         IN  shorter \cup {a \o b : a \in shorter, b \in Menu}

Inputs == Lines(MaxPieces) \ {<<>>}

----------------------------------------------------------------------------
(* calculate(): one iteration of its loop *)

\* `Token t = ts.get(); while (t.kind == t_print) t = ts.get();`
RECURSIVE SkipPrints(_, _)
SkipPrints(s, g) ==
    IF g.err = "" /\ g.tok.kind = t_print THEN SkipPrints(s, get(s, g.ts))
    ELSE g

Outcome(kind, ts, tb, val, msg) ==
    [kind |-> kind, ts |-> ts, table |-> tb, val |-> val, msg |-> msg]

\* the catch clause: report, then clean_up
Caught(s, ts, tb, msg) == Outcome("error", clean_up(s, ts), tb, Zero, msg)

\* `cout << result << statement(ts) << "\n";` or its exception caught
Stated(s, st) ==
    IF st.err = Hang THEN Outcome("hang", st.ts, st.table, Zero, "")
    ELSE IF st.err # "" THEN Caught(s, st.ts, st.table, st.err)
    ELSE Outcome("result", st.ts, st.table, st.val, "")

\* the switch of calculate() on the first token g that is no print
Dispatch(s, tb, g) ==
    IF g.err = Hang THEN Outcome("hang", g.ts, tb, Zero, "")
    ELSE IF g.err # "" THEN Caught(s, g.ts, tb, g.err)
    ELSE IF g.tok.kind = t_quit THEN Outcome("quit", g.ts, tb, Zero, "")
    ELSE IF g.tok.kind = t_help THEN Outcome("help", g.ts, tb, Zero, "")
    ELSE IF g.tok.kind = t_symbols THEN Outcome("symbols", g.ts, tb, Zero, "")
    ELSE Stated(s, statement(s, tb, putback(g.ts, g.tok)))

Iteration(s, tb, ts) == Dispatch(s, tb, SkipPrints(s, get(s, ts)))

\* what an iteration writes: "= value", "error: message", the help text or
\* the table
Output(kind, val, msg, shown) ==
    [kind |-> kind, val |-> val, msg |-> msg, shown |-> shown]

Written(it, tb) ==
    IF it.kind = "result" THEN <<Output("result", it.val, "", <<>>)>>
    ELSE IF it.kind = "error" THEN <<Output("error", Zero, it.msg, <<>>)>>
    ELSE IF it.kind = "help" THEN <<Output("help", Zero, "", <<>>)>>
    ELSE IF it.kind = "symbols" THEN <<Output("symbols", Zero, "", tb)>>
    ELSE <<>>

\* the loop test `while (cin)`, the return of case t_quit, or get() spinning
Loop(it) ==
    IF it.kind = "quit" THEN "done"
    ELSE IF it.kind = "hang" THEN "hang"
    ELSE IF it.ts.fail THEN "done"
    ELSE "run"

\* the iteration the loop is about to run
Current == Iteration(input, var_table, Stream(buffer, cin))

\* the loop runs the iteration it
Step(it) ==
    /\ pc = "run"
    /\ cin' = [pos |-> it.ts.pos, fail |-> it.ts.fail]
    /\ buffer' = it.ts.buffer
    /\ var_table' = it.table
    /\ out' = out \o Written(it, var_table)
    /\ pc' = Loop(it)
    /\ peak' = it.ts.peak
    /\ UNCHANGED <<input, tree, build>>

\* one iteration of the loop of calculate(): a command, a statement
\* evaluated and printed, an exception caught and recovered from, or get()
\* spinning at the end of the input
Calculate == Step(Current)

----------------------------------------------------------------------------
(* main(): the predefined names, then calculate() on an input of the menu *)

PiValue == Opaque("3.1415926535", 3)
EValue == Opaque("2.7182818284", 2)
KValue == Num(1000)

Predefined ==
    define_name(
        define_name(
            define_name(<<>>, "pi", PiValue, TRUE).table,
            "e", EValue, TRUE).table,
        "k", KValue, FALSE).table

NoTree == [op |-> "none"]

Start ==
    /\ cin = [pos |-> 1, fail |-> FALSE]
    /\ buffer = <<>>
    /\ var_table = Predefined
    /\ out = <<>>
    /\ pc = "run"
    /\ peak = 0
    /\ build \in Builds

Init ==
    /\ input \in Inputs
    /\ tree = NoTree
    /\ Start

Next == Calculate

Spec == Init /\ [][Next]_vars

----------------------------------------------------------------------------
(* Well-formed expressions as trees, their text, and their value by the     *)
(* grammar of the header comment of main.cpp:                               *)
(*   Expression: Term | Expression "+" Term | Expression "-" Term           *)
(*   Term:       Secondary | Term "*" Secondary | Term "/" Secondary        *)
(*   Secondary:  Primary | Secondary "!"                                    *)
(*   Primary:    Number | "(" Expression ")" | "{" Expression "}"           *)
(*               | "-" Primary | "+" Primary                                *)

Literals == 0..MaxLit

Leaf(k) == [op |-> "num", k |-> k]
Unary(u, a) == [op |-> u, a |-> a]
Binary(b, l, r) == [op |-> b, l |-> l, r |-> r]

UnarySeq == <<"neg", "pos", "paren", "brace", "fact">>
BinarySeq == <<"+", "-", "*", "/">>

\* the number of trees with exactly n operators
RECURSIVE Count(_)
SplitCount(n, i) == Count(i) * Count(n - 1 - i)

RECURSIVE SplitSum(_, _)
SplitSum(n, i) == IF i < 0 THEN 0 ELSE SplitCount(n, i) + SplitSum(n, i - 1)

Count(n) ==
    IF n = 0 THEN Cardinality(Literals)
    ELSE Len(UnarySeq) * Count(n - 1) + Len(BinarySeq) * SplitSum(n, n - 1)

\* the k-th tree with exactly n operators, k in 0 .. Count(n) - 1: the
\* trees under a unary operator first, then the trees under a binary
\* operator by the number i of operators of the left operand
RECURSIVE Nth(_, _)
RECURSIVE NthSplit(_, _, _)
NthSplit(n, i, k) ==
    IF k < SplitCount(n, i)
    THEN [l |-> Nth(i, k % Count(i)), r |-> Nth(n - 1 - i, k \div Count(i))]
    ELSE NthSplit(n, i + 1, k - SplitCount(n, i))

NthBinary(n, k) ==
    [op |-> BinarySeq[(k % Len(BinarySeq)) + 1]]
        @@ NthSplit(n, 0, k \div Len(BinarySeq))

Nth(n, k) ==
    IF n = 0 THEN Leaf(k)
    ELSE IF k < Len(UnarySeq) * Count(n - 1)
        THEN Unary(UnarySeq[(k % Len(UnarySeq)) + 1],
                   Nth(n - 1, k \div Len(UnarySeq)))
    ELSE NthBinary(n, k - Len(UnarySeq) * Count(n - 1))

\* the grammar level of a tree: 0 Expression, 1 Term, 2 Secondary, 3 Primary
Level(t) ==
    IF t.op \in {"+", "-"} THEN 0
    ELSE IF t.op \in {"*", "/"} THEN 1
    ELSE IF t.op = "fact" THEN 2
    ELSE 3

RECURSIVE DecimalText(_)
DecimalText(k) ==
    IF k < 10 THEN <<ToString(k)>>
    ELSE Append(DecimalText(k \div 10), ToString(k % 10))

\* the text of t where the grammar asks for level min or higher: t itself,
\* or t in parentheses when its own level is lower
RECURSIVE Unparse(_, _)
Unparse(t, min) ==
    IF Level(t) < min THEN <<"(">> \o Unparse(t, 0) \o <<")">>
    ELSE IF t.op = "num" THEN DecimalText(t.k)
    ELSE IF t.op = "neg" THEN <<"-">> \o Unparse(t.a, 3)
    ELSE IF t.op = "pos" THEN <<"+">> \o Unparse(t.a, 3)
    ELSE IF t.op = "paren" THEN <<"(">> \o Unparse(t.a, 0) \o <<")">>
    ELSE IF t.op = "brace" THEN <<"{">> \o Unparse(t.a, 0) \o <<"}">>
    ELSE IF t.op = "fact" THEN Append(Unparse(t.a, 2), "!")
    ELSE IF t.op \in {"*", "/"}
        THEN Unparse(t.l, 1) \o <<t.op>> \o Unparse(t.r, 2)
    ELSE Unparse(t.l, 0) \o <<t.op>> \o Unparse(t.r, 1)

Value(v) == [val |-> v, err |-> ""]
Failure(msg) == [val |-> Zero, err |-> msg]

\* the value of a tree, operands left to right, or the first failure
RECURSIVE RefEval(_)

RefUnary(op, a) ==
    IF a.err # "" THEN a
    ELSE IF op = "neg" THEN Value(Neg(a.val))
    ELSE IF op = "fact" THEN factorial(Trunc(a.val))
    ELSE a

RefBinary(op, l, r) ==
    IF l.err # "" THEN l
    ELSE IF r.err # "" THEN r
    ELSE IF op = "+" THEN Value(Add(l.val, r.val))
    ELSE IF op = "-" THEN Value(Sub(l.val, r.val))
    ELSE IF op = "*" THEN Value(Mul(l.val, r.val))
    ELSE IF IsZero(r.val) THEN Failure("divide by zero")
    ELSE Value(Div(l.val, r.val))

RefEval(t) ==
    IF t.op = "num" THEN Value(Num(t.k))
    ELSE IF t.op \in {"neg", "pos", "paren", "brace", "fact"}
        THEN RefUnary(t.op, RefEval(t.a))
    ELSE RefBinary(t.op, RefEval(t.l), RefEval(t.r))

\* what calculate() writes for a statement of that value
Expected(v) ==
    IF v.err # "" THEN Output("error", Zero, v.err, <<>>)
    ELSE Output("result", v.val, "", <<>>)

\* 2+3*4, 2*3!, 10-3-2 and 8/4/2
Examples == {
    Binary("+", Leaf(2), Binary("*", Leaf(3), Leaf(4))),
    Binary("*", Leaf(2), Unary("fact", Leaf(3))),
    Binary("-", Binary("-", Leaf(10), Leaf(3)), Leaf(2)),
    Binary("/", Binary("/", Leaf(8), Leaf(4)), Leaf(2))
}

\* a session whose input is one line holding the text of a tree
InitExpr ==
    /\ \/ \E n \in 0..MaxOps : \E k \in 0..(Count(n) - 1) : tree = Nth(n, k)
       \/ tree \in Examples
    /\ input = Append(Unparse(tree, 0), "\n")
    /\ Start

SpecExpr == InitExpr /\ [][Next]_vars

----------------------------------------------------------------------------
(* Properties of a session *)

ErrorOut(msg) == Output("error", Zero, msg, <<>>)
ResultOut(v) == Output("result", v, "", <<>>)

\* the value the table holds for a name
ValueOf(table, name) == get_value(table, name).val

\* the statement the loop is about to read: its first token that is no
\* print, the token after it, the token after that, and the value of the
\* expression that follows these
First == SkipPrints(input, get(input, Stream(buffer, cin)))
Second == get(input, First.ts)
Third == get(input, Second.ts)

\* C1: in every reachable state of a session the names held in the symbol
\* table are pairwise distinct.
C1_NamesDistinct ==
    \A i, j \in 1..Len(var_table) :
        var_table[i].name = var_table[j].name => i = j

\* two declarations were added to the three predefined names
C1_Witness ==
    /\ Len(var_table) = 5
    /\ var_table[4].name = "x"
    /\ var_table[5].name = "c"

\* the loop is about to read `let|#|const name = expression` where name is
\* in the table and the expression evaluates
DuplicateDeclaration ==
    /\ pc = "run"
    /\ First.err = "" /\ First.tok.kind \in {t_decl, t_const}
    /\ Second.err = "" /\ Second.tok.kind = t_name
    /\ is_declared(var_table, Second.tok.name)
    /\ Third.err = "" /\ Third.tok.kind = "="
    /\ expression(input, var_table, Third.ts).err = ""

\* C2: a declaration (let / # / const) of a name that is already in the
\* symbol table fails with "<name> declared twice", and the table is left
\* as it was: the entry keeps its value and its constant flag and no entry
\* is added.
C2_DuplicateDeclarationFails ==
    [][DuplicateDeclaration =>
          /\ out' = Append(out, ErrorOut(Second.tok.name \o " declared twice"))
          /\ var_table' = var_table]_vars

\* x was declared as 5, and a second declaration of x failed
C2_Witness ==
    /\ out = <<ResultOut(Num(5)), ErrorOut("x declared twice")>>
    /\ var_table = Append(Predefined, Variable("x", Num(5), FALSE))

\* the loop is about to read `name = expression` where the expression
\* evaluates
Assignment(name) ==
    /\ pc = "run"
    /\ First.err = "" /\ First.tok.kind = t_name /\ First.tok.name = name
    /\ Second.err = "" /\ Second.tok.kind = t_assign
    /\ expression(input, var_table, Second.ts).err = ""

ConstantAssignment ==
    \E i \in 1..Len(var_table) :
        var_table[i].constant /\ Assignment(var_table[i].name)

ConstantsKept ==
    /\ \E i \in 1..Len(var_table) : var_table[i] = Variable("pi", PiValue, TRUE)
    /\ \E i \in 1..Len(var_table) : var_table[i] = Variable("e", EValue, TRUE)

\* C3: an assignment whose target is a constant fails with "trying to write
\* to constant" and leaves the table as it was; pi and e are in the table,
\* constant, with their startup values in every reachable state; k starts
\* at 1000, and an assignment to k gives k the value of the expression.
C3_ConstantsAreNotWritten ==
    /\ (out = <<>> => var_table[3] = Variable("k", Num(1000), FALSE))
    /\ [](ConstantsKept)
    /\ [][ConstantAssignment =>
             /\ out' = Append(out, ErrorOut("trying to write to constant"))
             /\ var_table' = var_table]_vars
    /\ [][Assignment("k") =>
             /\ ValueOf(var_table', "k") =
                    expression(input, var_table, Second.ts).val
             /\ out' = Append(out, ResultOut(ValueOf(var_table', "k")))]_vars

\* k was assigned 7, then an assignment to pi failed
C3_Witness ==
    /\ out = <<ResultOut(Num(7)), ErrorOut("trying to write to constant")>>
    /\ ValueOf(var_table, "k") = Num(7)
    /\ ValueOf(var_table, "pi") = PiValue

\* the session is over: calculate() returned, or get() spins at the end of
\* the input
Over == pc # "run"

\* lines ended by a newline that hold a character get() does not know
BadLines == {<<"@", "\n">>, <<"2", " ", "@", " ", "3", "\n">>}

\* C4: after a statement fails on an unknown character on a line ended by a
\* newline, the valid statement on the next line is evaluated and its
\* result is written.
C4_NextLineEvaluated ==
    \A bad \in BadLines :
        /\ (Over /\ input = bad \o <<"7", "\n">>) =>
               out = <<ErrorOut("bad token"), ResultOut(Num(7))>>
        /\ (Over /\ input = bad \o <<"7", ";">>) =>
               out = <<ErrorOut("bad token"), ResultOut(Num(7))>>
        /\ (Over /\ input = bad \o <<"2", "+", "3", "*", "4", "\n">>) =>
               out = <<ErrorOut("bad token"), ResultOut(Num(14))>>

\* statements ended by `;` that fail, with the message of the failure
FailingStatements == {
    <<<<"2", " ", "@", ";">>, "bad token">>,
    <<<<"(", "1", ";">>, "')' expected">>,
    <<<<"{", "1", ")", ";">>, "'}' expected">>,
    <<<<"1", "/", "0", ";">>, "divide by zero">>,
    <<<<"z", ";">>, "trying to read undefined variable z">>,
    <<<<"1", " ", "+", ";">>, "primary expected">>,
    <<<<"-", "3", "!", ";">>, "cannot get factorial of negative number.">>,
    <<<<"s", "q", "r", "t", "(", "0", "-", "1", ")", ";">>,
      "cannot get square root of negative number">>,
    <<<<"s", "q", "r", "t", " ", "2", ";">>, "sqrt: primary expected">>,
    <<<<"p", "o", "w", "(", "2", ";">>, "pow: ',' expected">>,
    <<<<"c", " ", "=", " ", "4", ";">>, "c has not been declared">>,
    <<<<"#", " ", "k", " ", "=", " ", "1", ";">>, "k declared twice">>,
    <<<<"l", "e", "t", " ", ";">>, "name expected in declaration">>,
    <<<<"l", "e", "t", " ", "x", " ", "5", ";">>,
      "'=' missing in declaration of x">>
}

\* C5: whatever failure is raised in a statement ended by `;`, the
\* statement after that `;` is evaluated.
C5_NextStatementEvaluated ==
    \A f \in FailingStatements :
        (Over /\ input = f[1] \o <<"7", ";">>) =>
            out = <<ErrorOut(f[2]), ResultOut(Num(7))>>

\* C6: a statement that ends in a failure leaves the symbol table as it was
\* before the statement.
C6_FailureLeavesTable ==
    [][(/\ Len(out') = Len(out) + 1
        /\ out'[Len(out')].kind = "error") => var_table' = var_table]_vars

\* x was declared, then the declaration of y failed in its expression
C6_Witness ==
    /\ out = <<ResultOut(Num(5)), ErrorOut("divide by zero")>>
    /\ var_table = Append(Predefined, Variable("x", Num(5), FALSE))

\* the loop is about to read a statement `a / b`, a and b each a Secondary,
\* where b evaluates to zero
Dividend == secondary(input, var_table, putback(First.ts, First.tok))
Slash == get(input, Dividend.ts)
Divisor == secondary(input, var_table, Slash.ts)

DivisionByZero ==
    /\ pc = "run"
    /\ First.err = "" /\ Dividend.err = ""
    /\ Slash.err = "" /\ Slash.tok.kind = "/"
    /\ Divisor.err = "" /\ IsZero(Divisor.val)

\* C7: a statement `a / b` whose right-hand operand evaluates to zero fails
\* with "divide by zero" whatever a is, and the table is left as the
\* earlier statements made it.
C7_DivideByZeroFails ==
    [][DivisionByZero =>
          /\ out' = Append(out, ErrorOut("divide by zero"))
          /\ var_table' = var_table]_vars

\* k was assigned 7, then `k/0` failed
C7_Witness ==
    /\ out = <<ResultOut(Num(7)), ErrorOut("divide by zero")>>
    /\ ValueOf(var_table, "k") = Num(7)
    /\ input = <<"k", " ", "=", " ", "7", ";", "k", "/", "0", "\n">>

\* C8: `a % b` is the remainder of a by b when b is not zero, and fails with
\* "%: divide by zero" when b is zero.
C8_PercentIsAnOperator ==
    /\ (Over /\ input = <<"1", "0", " ", "%", " ", "0", ";">>) =>
           out = <<ErrorOut("%: divide by zero")>>
    /\ (Over /\ input = <<"7", " ", "%", " ", "2", ";">>) =>
           out = <<ResultOut(Num(1))>>

\* what a session on the text of the tree t writes is the value v
Yields(t, v) == (tree = t /\ Len(out) >= 1) => out = <<ResultOut(Num(v))>>

\* C9: what a session writes for the text of a well-formed expression
\* over small integer literals, unary + and -, grouping, postfix !, * / and
\* + - is the value of the expression by the grammar, where unary and
\* grouping bind tighter than !, ! tighter than * /, * / tighter than + -,
\* and * / and + - associate to the left; 2+3*4 is 14, 2*3! is 12, 10-3-2
\* is 5 and 8/4/2 is 1.
C9_EvaluatorFollowsGrammar ==
    /\ (tree # NoTree /\ Len(out) >= 1) => out = <<Expected(RefEval(tree))>>
    /\ Yields(Binary("+", Leaf(2), Binary("*", Leaf(3), Leaf(4))), 14)
    /\ Yields(Binary("*", Leaf(2), Unary("fact", Leaf(3))), 12)
    /\ Yields(Binary("-", Binary("-", Leaf(10), Leaf(3)), Leaf(2)), 5)
    /\ Yields(Binary("/", Binary("/", Leaf(8), Leaf(4)), Leaf(2)), 1)

\* 1-2*2 was evaluated to -3
C9_Witness ==
    /\ tree = Binary("-", Leaf(1), Binary("*", Leaf(2), Leaf(2)))
    /\ input = <<"1", "-", "2", "*", "2", "\n">>
    /\ out = <<ResultOut(Num(0 - 3))>>

\* the input begins with the line `-3!`
MinusThreeFactorial ==
    /\ Len(input) >= 4
    /\ SubSeq(input, 1, 4) = <<"-", "3", "!", "\n">>
    /\ Len(out) >= 1

\* C10, as the specification states it: the statement -3! evaluates to -6.
C10_MinusAfterFactorial ==
    MinusThreeFactorial => out[1] = ResultOut(Num(0 - 6))

\* C10, as the code has it: the statement -3! fails with "cannot get
\* factorial of negative number.", because the unary minus is applied to 3
\* and the factorial to the result.
C10_MinusBeforeFactorial ==
    MinusThreeFactorial =>
        out[1] = ErrorOut("cannot get factorial of negative number.")

\* the session whose input is the line -3! wrote the failure and ended
C10_Witness ==
    /\ input = <<"-", "3", "!", "\n">>
    /\ out = <<ErrorOut("cannot get factorial of negative number.")>>
    /\ pc = "done"

\* the loop is about to read a statement that begins `name =`
AssignmentTo(name) ==
    /\ pc = "run"
    /\ First.err = "" /\ First.tok.kind = t_name /\ First.tok.name = name
    /\ Second.err = "" /\ Second.tok.kind = t_assign

\* the loop is about to read a statement that begins `let|#|const name`
DeclarationOf(name, constant) ==
    /\ pc = "run"
    /\ First.err = "" /\ First.tok.kind \in {t_decl, t_const}
    /\ constant = (First.tok.kind = t_const)
    /\ Second.err = "" /\ Second.tok.kind = t_name /\ Second.tok.name = name

\* the step wrote the result v and nothing else
Wrote(v) == out' = Append(out, ResultOut(v))

\* C11: an entry is added to the symbol table only by a successful
\* declaration of its name, a value changes only by a successful
\* assignment to its name, no constant flag changes and no entry is
\* removed; an assignment to a name that is not declared fails with
\* "<name> has not been declared" and adds no entry.
C11_Lifecycle ==
    [][/\ Len(var_table') \in {Len(var_table), Len(var_table) + 1}
       /\ \A i \in 1..Len(var_table) :
             /\ var_table'[i].name = var_table[i].name
             /\ var_table'[i].constant = var_table[i].constant
             /\ var_table'[i].value # var_table[i].value =>
                    /\ AssignmentTo(var_table[i].name)
                    /\ Wrote(var_table'[i].value)
       /\ Len(var_table') = Len(var_table) + 1 =>
             /\ DeclarationOf(var_table'[Len(var_table')].name,
                              var_table'[Len(var_table')].constant)
             /\ Wrote(var_table'[Len(var_table')].value)
       /\ \A name \in {"c", "x", "z"} :
             (AssignmentTo(name) /\ ~is_declared(var_table, name)) =>
                 /\ out' = Append(out, ErrorOut(name \o " has not been declared"))
                 /\ var_table' = var_table]_vars

\* x was declared, then the assignment to c, which is not declared, failed
C11_Witness ==
    /\ out = <<ResultOut(Num(5)), ErrorOut("c has not been declared")>>
    /\ var_table = Append(Predefined, Variable("x", Num(5), FALSE))

\* the loop is about to read the statement `name` followed by a terminator
Reading(name) ==
    /\ pc = "run"
    /\ First.err = "" /\ First.tok.kind = t_name /\ First.tok.name = name
    /\ Second.err = "" /\ Second.tok.kind = t_print

LetThenIncrement ==
    <<"l", "e", "t", " ", "x", " ", "=", " ", "5", ";", " ", "x", "\n",
      "x", " ", "=", " ", "x", " ", "+", " ", "1", ";", " ", "x", "\n">>

\* C12: a statement `x` evaluates to the value the last successful
\* declaration of or assignment to x gave it: a declaration or assignment
\* that writes a result leaves that value in the table, and the statement
\* `x` writes the value the table holds; `let x = 5; x` then
\* `x = x + 1; x` writes 5, 5, 6, 6.
C12_StatementsSeeMutations ==
    /\ []((Over /\ input = LetThenIncrement) =>
             out = <<ResultOut(Num(5)), ResultOut(Num(5)),
                     ResultOut(Num(6)), ResultOut(Num(6))>>)
    /\ [][\A name \in {"x", "k", "c"} :
             /\ (Reading(name) /\ is_declared(var_table, name)) =>
                    Wrote(ValueOf(var_table, name))
             /\ ((AssignmentTo(name) \/ DeclarationOf(name, TRUE)
                     \/ DeclarationOf(name, FALSE))
                 /\ Len(out') = Len(out) + 1
                 /\ out'[Len(out')].kind = "result") =>
                    ValueOf(var_table', name) = out'[Len(out')].val]_vars

\* x was declared as 5, read, incremented and read again
C12_Witness ==
    /\ input = LetThenIncrement
    /\ out = <<ResultOut(Num(5)), ResultOut(Num(5)),
               ResultOut(Num(6)), ResultOut(Num(6))>>
    /\ ValueOf(var_table, "x") = Num(6)

----------------------------------------------------------------------------
(* Sessions whose input begins with a run of name characters *)

NameChars == Alpha \cup Digit \cup {"_"}

\* the runs of 0 .. n characters that follow the first letter
RECURSIVE Tails(_)
Tails(n) ==
    IF n = 0 THEN {<<>>}
    ELSE LET shorter == Tails(n - 1)
         IN  shorter \cup {Append(t, c) : t \in shorter, c \in {"u", "x", "1", "_"}}

\* the words the grammar comment and the keyword table name
Words == {
    <<"l", "e", "t">>, <<"c", "o", "n", "s", "t">>, <<"q", "u", "i", "t">>,
    <<"e", "x", "i", "t">>, <<"h", "e", "l", "p">>,
    <<"s", "y", "m", "b", "o", "l", "s">>, <<"s", "q", "r", "t">>,
    <<"p", "o", "w">>
}

Runs == Words \cup {<<l>> \o t : l \in Alpha, t \in Tails(MaxTail)}

\* the run on a line of its own, alone or followed by a statement
InitNames ==
    /\ \E r \in Runs, rest \in {<<>>, <<"7", ";">>} :
           input = Append(r, "\n") \o rest
    /\ tree = NoTree
    /\ Start

SpecNames == InitNames /\ [][Next]_vars

\* the run of name characters the input begins with, as a string
RunLength == RunEnd(input, 1, NameChars) - 1
Run == Text(input, 1, RunLength + 1)

\* the session has read nothing yet and its input begins with a letter
AtRun ==
    /\ cin = [pos |-> 1, fail |-> FALSE] /\ buffer = <<>> /\ pc = "run"
    /\ input # <<>> /\ isalpha(input[1])

\* the token of a run by the keywords let, const, quit, exit, help, symbols,
\* sqrt and pow and the command q
WordToken(str) ==
    IF str = "let" THEN Token(t_decl)
    ELSE IF str = "const" THEN Token(t_const)
    ELSE IF str \in {"q", "quit", "exit"} THEN Token(t_quit)
    ELSE IF str = "help" THEN Token(t_help)
    ELSE IF str = "symbols" THEN Token(t_symbols)
    ELSE IF str = "sqrt" THEN Token(t_sqrt)
    ELSE IF str = "pow" THEN Token(t_pow)
    ELSE NameToken(str)

\* C13: get() makes one token of a maximal run of letters, digits and
\* underscores that begins with a letter, whatever the letter: the keyword
\* token when the run is a keyword, a Name token carrying the run
\* otherwise, and the character after the run is the next one unread.
C13_OneTokenPerRun ==
    AtRun =>
        /\ get(input, Stream(buffer, cin)).err = ""
        /\ get(input, Stream(buffer, cin)).tok = WordToken(Run)
        /\ get(input, Stream(buffer, cin)).ts.pos = RunLength + 1

\* C14: q, quit and exit as the first token of a statement end the read
\* loop: nothing is evaluated after them and the table is not changed.
C14_QuitCommandsEndTheLoop ==
    (Over /\ isalpha(input[1]) /\ Run \in {"q", "quit", "exit"}) =>
        /\ pc = "done"
        /\ out = <<>>
        /\ var_table = Predefined

----------------------------------------------------------------------------
(* Sessions whose input is one call of sqrt or pow, well-formed or not *)

\* the tokens tried in the place of `(`, `,` and `)`
Delimiters == {"(", ")", ",", "{", ";"}

\* argument expressions with their values
Arguments == {
    [text |-> <<"4">>, val |-> Num(4)],
    [text |-> <<"2">>, val |-> Num(2)],
    [text |-> <<"3">>, val |-> Num(3)],
    [text |-> <<"0", "-", "1">>, val |-> Num(0 - 1)]
}

SqrtShape(t1, e1, t2) ==
    [op |-> "sqrt", t1 |-> t1, e1 |-> e1, t2 |-> t2]
PowShape(t1, e1, t2, e2, t3) ==
    [op |-> "pow", t1 |-> t1, e1 |-> e1, t2 |-> t2, e2 |-> e2, t3 |-> t3]

CallText(c) ==
    IF c.op = "sqrt"
    THEN <<"s", "q", "r", "t", c.t1>> \o c.e1.text \o <<c.t2>>
    ELSE <<"p", "o", "w", c.t1>> \o c.e1.text \o <<c.t2>> \o c.e2.text
             \o <<c.t3>>

\* the call as a statement, or as the expression of a declaration of y
InitCalls ==
    /\ \/ \E t1 \in Delimiters, e1 \in Arguments, t2 \in Delimiters :
              tree = SqrtShape(t1, e1, t2)
       \/ \E t1 \in Delimiters, e1 \in Arguments, t2 \in Delimiters,
             e2 \in Arguments, t3 \in Delimiters :
              tree = PowShape(t1, e1, t2, e2, t3)
    /\ \E prefix \in {<<>>, <<"l", "e", "t", " ", "y", "=">>} :
           input = prefix \o Append(CallText(tree), ";")
    /\ Start

SpecCalls == InitCalls /\ [][Next]_vars

\* what a call of that shape is: its value, or the failure at the first
\* token out of place
CallValue(c) ==
    IF c.t1 # "(" THEN Failure(c.op \o ": primary expected")
    ELSE IF c.op = "sqrt"
    THEN IF c.t2 # ")" THEN Failure("sqrt: ')' expected")
         ELSE IF c.e1.val.n < 0
             THEN Failure("cannot get square root of negative number")
         ELSE Value(Sqrt(c.e1.val))
    ELSE IF c.t2 # "," THEN Failure("pow: ',' expected")
    ELSE IF c.t3 # ")" THEN Failure("pow: ')' expected")
    ELSE Value(Pow(c.e1.val, c.e2.val))

\* the first statement of the session has been dealt with
FirstWritten == tree.op \in {"sqrt", "pow"} /\ Len(out) = 1

\* C15: sqrt takes `(` expression `)` and pow `(` expression `,`
\* expression `)`; another token in the place of `(`, `,` or `)` fails
\* with "<function>: primary expected", "pow: ',' expected" or
\* "<function>: ')' expected", sqrt of a negative argument fails with
\* "cannot get square root of negative number", and a failing call leaves
\* the symbol table unchanged; sqrt(4) is 2 and pow(2,3) is 8.
C15_CallShape ==
    /\ FirstWritten => out[1] = Expected(CallValue(tree))
    /\ (FirstWritten /\ out[1].kind = "error") => var_table = Predefined
    /\ (FirstWritten /\ tree = SqrtShape("(", [text |-> <<"4">>, val |-> Num(4)], ")"))
           => out[1] = ResultOut(Num(2))
    /\ (FirstWritten /\ tree = PowShape("(", [text |-> <<"2">>, val |-> Num(2)], ",",
                                        [text |-> <<"3">>, val |-> Num(3)], ")"))
           => out[1] = ResultOut(Num(8))

\* `let y=pow(2,3;` failed for want of the `)` and y was not declared
C15_Witness ==
    /\ input = <<"l", "e", "t", " ", "y", "=", "p", "o", "w", "(", "2", ",",
                 "3", ";", ";">>
    /\ out = <<ErrorOut("pow: ')' expected")>>
    /\ var_table = Predefined

----------------------------------------------------------------------------
(* The token a statement stops at *)

\* the step wrote the result of a statement
WroteResult == Len(out') = Len(out) + 1 /\ out'[Len(out')].kind = "result"

OneTwo == <<"1", " ", "2", "\n">>
KFiveParen == <<"k", " ", "=", " ", "5", " ", ")", "\n">>

\* C16 as stated: whenever the loop writes the result of a statement, the
\* token the parse stopped at is a terminator left in the buffer, and a
\* statement followed by another token (`1 2`, `k = 5 )`) writes no result
\* and changes no variable.
C16_StopsAtTerminator ==
    [][/\ WroteResult => (Len(buffer') = 1 /\ buffer'[1].kind = t_print)
       /\ input \in {OneTwo, KFiveParen}
              => (~WroteResult /\ var_table' = var_table)]_vars

\* C16: whenever the loop writes the result of a statement, the token the
\* parse stopped at is left in the buffer for the loop, and it is a token
\* that cannot continue an expression: a terminator, or any other such
\* token, which then begins the next statement.  `1 2` writes 1 and then 2;
\* `k = 5 )` writes 5, stores 5 in k, and then fails at `)`.
C16_StopTokenLeft ==
    /\ [][WroteResult
              => /\ Len(buffer') = 1
                 /\ buffer'[1].kind \notin {"+", "-", "*", "/", "!"}
                 /\ get(input, Stream(buffer', cin')).tok = buffer'[1]]_vars
    /\ []((input = OneTwo /\ Over)
              => out = <<ResultOut(Num(1)), ResultOut(Num(2))>>)
    /\ []((input = KFiveParen /\ Over)
              => /\ out = <<ResultOut(Num(5)), ErrorOut("primary expected")>>
                 /\ ValueOf(var_table, "k") = Num(5))

\* `k = 5 )` has written 5, kept it in k, and failed at the `)`
C16_Witness ==
    /\ input = KFiveParen
    /\ out = <<ResultOut(Num(5)), ErrorOut("primary expected")>>
    /\ ValueOf(var_table, "k") = Num(5)
    /\ Over

----------------------------------------------------------------------------
(* The pushback buffer *)

\* C17: the pushback buffer never holds more than 2 tokens, neither
\* between iterations of the loop nor at any point of the parse or of the
\* recovery of an iteration, and get() returns the buffer's last token,
\* reading no character, whenever the buffer is not empty.
C17_BufferAtMostTwo ==
    /\ Len(buffer) <= 2
    /\ peak <= 2
    /\ buffer # <<>>
           => /\ get(input, Stream(buffer, cin)).tok = buffer[Len(buffer)]
              /\ get(input, Stream(buffer, cin)).ts.pos = cin.pos
              /\ get(input, Stream(buffer, cin)).ts.buffer
                     = SubSeq(buffer, 1, Len(buffer) - 1)

\* the statement `k;` put back both `;` and `k`: the buffer held 2 tokens,
\* and one, the `;`, is left for the loop
C17_Witness ==
    /\ input = <<"k", ";">>
    /\ out = <<ResultOut(Num(1000))>>
    /\ peak = 2
    /\ Len(buffer) = 1

----------------------------------------------------------------------------
(* Statements that begin with a Name *)

\* the loop is about to read a statement that begins with a Name followed
\* by a token that is not `=`
NameThenOther ==
    /\ pc = "run"
    /\ First.err = "" /\ First.tok.kind = t_name
    /\ Second.err = "" /\ Second.tok.kind # t_assign

\* the expression read from the Name on, the token after it still unread
FromName == expression(input, var_table, putback(First.ts, First.tok))

\* the expression after the `=`
AfterEquals == expression(input, var_table, Second.ts)

\* the step did what the loop does with the outcome r of an expression
WroteExpression(r) ==
    IF r.err = Hang THEN pc' = "hang" /\ out' = out
    ELSE IF r.err # "" THEN out' = Append(out, ErrorOut(r.err))
    ELSE /\ Wrote(r.val)
         /\ buffer' = r.ts.buffer
         /\ cin' = [pos |-> r.ts.pos, fail |-> r.ts.fail]

\* C18: a statement that begins with a Name followed by `=` is an
\* assignment to that Name: it fails if the Name is not declared or is a
\* constant, and otherwise stores and writes the value of the expression
\* after the `=`.  Followed by any other token, the statement is the
\* expression that begins with the Name: both tokens are read again in
\* their order, and the step writes what evaluating the tokens from the
\* Name on as an expression yields, leaving the table as it was.
C18_NameDispatch ==
    [][/\ NameThenOther => (WroteExpression(FromName) /\ var_table' = var_table)
       /\ \A name \in {"k", "x", "c", "z", "pi"} :
             AssignmentTo(name) =>
                 IF ~is_declared(var_table, name)
                 THEN out' = Append(out, ErrorOut(name \o " has not been declared"))
                 ELSE IF AfterEquals.err # ""
                     THEN WroteExpression(AfterEquals) /\ var_table' = var_table
                 ELSE IF var_table[FirstIndex(var_table, name)].constant
                     THEN out' = Append(out, ErrorOut("trying to write to constant"))
                 ELSE /\ WroteExpression(AfterEquals)
                      /\ ValueOf(var_table', name) = AfterEquals.val]_vars

\* `k = 7;k;` was an assignment and then an expression: 7 and 7
C18_Witness ==
    /\ input = <<"k", " ", "=", " ", "7", ";", "k", ";">>
    /\ out = <<ResultOut(Num(7)), ResultOut(Num(7))>>
    /\ ValueOf(var_table, "k") = Num(7)

----------------------------------------------------------------------------
(* factorial() against the mathematical factorial *)

\* n! for n >= 0 while it fits an int, and otherwise 0, which no factorial is
RECURSIVE Product(_, _)
Product(n, acc) ==
    IF n <= 1 THEN acc
    ELSE IF acc > IntMax \div n THEN 0
    ELSE Product(n - 1, acc * n)

FactorialArguments == (0 - 3)..20

\* C19: factorial(n) for n >= 0 returns exactly n!, with factorial(0) =
\* factorial(1) = 1, or fails with "overflow occurred in int."; it never
\* returns a wrapped product; for n < 0 it fails with "cannot get
\* factorial of negative number.".
C19_FactorialExactOrFails ==
    /\ factorial(0).val = Num(1) /\ factorial(0).err = ""
    /\ factorial(1).val = Num(1) /\ factorial(1).err = ""
    /\ \A n \in FactorialArguments :
          IF n < 0
          THEN factorial(n).err = "cannot get factorial of negative number."
          ELSE \/ factorial(n).err = "overflow occurred in int."
               \/ /\ factorial(n).err = ""
                  /\ Product(n, 1) # 0
                  /\ factorial(n).val = Num(Product(n, 1))

\* the same, in the builds that keep the test `x/prev != i`
FactorialExactWhereTestKept == build = "test kept" => C19_FactorialExactOrFails

----------------------------------------------------------------------------
(* The end of the input *)

\* C20: at the end of the input get() returns or fails and the loop of
\* calculate() exits: no session reaches the state in which get() spins
\* in its loop over blanks.
C20_GetNeverSpins == pc # "hang"

====
